---- MODULE Spec2Model ----
(***************************************************************************)
(* Model of llms/providers/anthropic.py and llms/providers/mistral.py:     *)
(* the request normalizers (_prepare_model_inputs), the four invocation    *)
(* modes of each provider (complete, acomplete, complete_stream,           *)
(* acomplete_stream) and the stream adapters (_process_stream,             *)
(* _aprocess_stream).                                                      *)
(*                                                                         *)
(* A text is a sequence of characters (one-character strings; a turn       *)
(* marker word counts as one character).  An Optional value is a sequence  *)
(* of length at most one: None is <<>> and a present value x is <<x>>.     *)
(* A dict is a function from key names to values.                          *)
(***************************************************************************)
EXTENDS Integers, Sequences, FiniteSets, TLC

(* ------------------------------ bounds -------------------------------- *)

\* Number of calls that can be in flight on one provider instance.
NumCalls == 2
\* Wall-clock ticks the model follows.
MaxClock == 2
\* Longest raw vendor response, in chunks.
MaxChunks == 3
\* Longest chunk text, in characters.
MaxChunkLen == 2

(* ----------------------------- Python values -------------------------- *)

None == <<>>

Some(x) == <<x>>

EmptyDict == [k \in {} |-> None]

\* {**a, **b}: the keys of b win.
DictMerge(a, b) == [k \in (DOMAIN a) \cup (DOMAIN b) |-> IF k \in DOMAIN b THEN b[k] ELSE a[k]]

DictWithout(a, keys) == [k \in (DOMAIN a) \ keys |-> a[k]]

DictOnly(a, keys) == [k \in (DOMAIN a) \cap keys |-> a[k]]

\* a.get(k, d)
Get(a, k, d) == IF k \in DOMAIN a THEN a[k] ELSE d

\* An Optional argument: None when the key is absent.
GetOpt(a, k) == IF k \in DOMAIN a THEN Some(a[k]) ELSE None

\* str.strip / lstrip / rstrip with no argument strip these.
Whitespace == {" ", "\n", "\t"}

RECURSIVE lstrip(_)
lstrip(s) == IF s = <<>> THEN <<>> ELSE IF Head(s) \in Whitespace THEN lstrip(Tail(s)) ELSE s

RECURSIVE rstrip(_)
rstrip(s) == IF s = <<>> THEN <<>> ELSE IF s[Len(s)] \in Whitespace THEN rstrip(SubSeq(s, 1, Len(s) - 1)) ELSE s

strip(s) == rstrip(lstrip(s))

\* "".join(seq)
RECURSIVE join(_)
join(seq) == IF seq = <<>> THEN <<>> ELSE Head(seq) \o join(Tail(seq))

\* Python truthiness of an Optional text or list: None and the empty value are falsy.
Truthy(opt) == opt # None /\ opt[1] # <<>>

(* --------------------------- request normalizers ---------------------- *)

HUMAN_PROMPT == <<"\n", "\n", "Human:">>

AI_PROMPT == <<"\n", "\n", "Assistant:">>

DefaultTemperature == 0

DefaultMaxTokens == 300

AnthropicModels == {"claude-instant-v1.1", "claude-2"}

MistralModels == {"mistral-tiny"}

StreamModes == {"complete_stream", "acomplete_stream"}

\* Named parameters of the four public methods.
AnthropicPublicParams == {"prompt", "history", "temperature", "max_tokens", "stop_sequences", "ai_prompt", "system_message"}

MistralPublicParams == {"prompt", "history", "system_message", "temperature", "max_tokens", "safe_prompt", "random_seed"}

\* Named parameters of _prepare_model_inputs.
AnthropicPrepareParams == AnthropicPublicParams \cup {"stream"}

MistralPrepareParams == MistralPublicParams \cup {"stop_sequences"}

Raise(e) == [ok |-> FALSE, error |-> e, inputs |-> EmptyDict]

Return(d) == [ok |-> TRUE, error |-> "", inputs |-> d]

\* The formatted messages of the history loop (history_text_list), for a
\* history whose roles are all valid.
RECURSIVE AnthropicHistoryText(_)
AnthropicHistoryText(history) ==
    IF history = <<>> THEN <<>>
    ELSE LET message == Head(history)
             role_prompt == IF message.role = "user" THEN HUMAN_PROMPT ELSE AI_PROMPT
         IN  <<role_prompt \o message.content>> \o AnthropicHistoryText(Tail(history))

AnthropicInvalidRole(history) == \E i \in 1..Len(history) : history[i].role \notin {"user", "assistant"}

\* AnthropicProvider._prepare_model_inputs on its bound parameters (named) and
\* the rest of the keywords (kwargs).
AnthropicNormalize(model, named, kwargs) ==
    LET system_message == named["system_message"]
        history == named["history"]
        system_prompts == IF system_message = None THEN <<>> ELSE rstrip(system_message[1]) \o <<"\n", "\n">>
        formatted_prompt == system_prompts \o HUMAN_PROMPT \o named["prompt"] \o AI_PROMPT \o named["ai_prompt"]
        full_prompt == IF history = None THEN formatted_prompt
                       ELSE join(AnthropicHistoryText(history[1])) \o formatted_prompt
        max_tokens_to_sample == Get(kwargs, "max_tokens_to_sample", named["max_tokens"])
        rest == DictWithout(kwargs, {"max_tokens_to_sample"})
        stop_sequences == IF named["stop_sequences"] = None THEN <<HUMAN_PROMPT>> ELSE named["stop_sequences"][1]
        owned == [k \in {"prompt", "temperature", "max_tokens_to_sample", "stop_sequences", "stream"} |->
                    CASE k = "prompt" -> full_prompt
                      [] k = "temperature" -> named["temperature"]
                      [] k = "max_tokens_to_sample" -> max_tokens_to_sample
                      [] k = "stop_sequences" -> stop_sequences
                      [] k = "stream" -> named["stream"]]
    IN  IF system_message # None /\ model # "claude-2"
            THEN Raise("ValueError: System message only available for Claude-2 model")
        ELSE IF history # None /\ AnthropicInvalidRole(history[1])
            THEN Raise("ValueError: Invalid role")
        ELSE Return(DictMerge(owned, rest))

\* The call self._prepare_model_inputs(prompt=..., ..., [stream=True,] **kwargs)
\* made by public method `mode` for the caller's keyword arguments `args`.
AnthropicPrepare(model, mode, args) ==
    LET kwargs == DictWithout(args, AnthropicPublicParams)
        explicit == [k \in AnthropicPublicParams \cup (IF mode \in StreamModes THEN {"stream"} ELSE {}) |->
                       CASE k = "prompt" -> args["prompt"]
                         [] k = "history" -> GetOpt(args, "history")
                         [] k = "temperature" -> Get(args, "temperature", DefaultTemperature)
                         [] k = "max_tokens" -> Get(args, "max_tokens", DefaultMaxTokens)
                         [] k = "stop_sequences" -> GetOpt(args, "stop_sequences")
                         [] k = "ai_prompt" -> Get(args, "ai_prompt", <<>>)
                         [] k = "system_message" -> GetOpt(args, "system_message")
                         [] k = "stream" -> TRUE]
        defaults == [k \in {"stream"} |-> FALSE]
        named == DictMerge(defaults, DictMerge(DictOnly(kwargs, AnthropicPrepareParams), explicit))
    IN  IF (DOMAIN kwargs) \cap (DOMAIN explicit) # {}
            THEN Raise("TypeError: got multiple values for keyword argument")
        ELSE AnthropicNormalize(model, named, DictWithout(kwargs, AnthropicPrepareParams))

\* mistralai's ChatMessage(role=..., content=...): a role-tagged message; any
\* string is accepted as a role.
ChatMessage(role, content) == [role |-> role, content |-> content]

MistralHistoryMessages(history) == [i \in 1..Len(history) |-> ChatMessage(history[i].role, history[i].content)]

\* MistralProvider._prepare_model_inputs on its bound parameters and the
\* rest of the keywords.
MistralNormalize(named, kwargs) ==
    LET history == named["history"]
        system_message == named["system_message"]
        prompt_messages == <<ChatMessage("user", named["prompt"])>>
        with_history == IF Truthy(history) THEN MistralHistoryMessages(history[1]) \o prompt_messages
                        ELSE prompt_messages
        messages == IF system_message = None THEN with_history
                    ELSE <<ChatMessage("system", system_message[1])>> \o with_history
        owned == [k \in {"messages", "temperature", "max_tokens", "safe_prompt", "random_seed"} |->
                    CASE k = "messages" -> messages
                      [] k = "temperature" -> named["temperature"]
                      [] k = "max_tokens" -> named["max_tokens"]
                      [] k = "safe_prompt" -> named["safe_prompt"]
                      [] k = "random_seed" -> named["random_seed"]]
    IN  IF Truthy(named["stop_sequences"])
            THEN Raise("ValueError: Parameter stop is not supported")
        ELSE Return(DictMerge(owned, kwargs))

\* The call self._prepare_model_inputs(prompt=..., ..., **kwargs) made by a
\* public method for the caller's keyword arguments `args`.
MistralPrepare(args) ==
    LET kwargs == DictWithout(args, MistralPublicParams)
        explicit == [k \in MistralPublicParams |->
                       CASE k = "prompt" -> args["prompt"]
                         [] k = "history" -> GetOpt(args, "history")
                         [] k = "system_message" -> GetOpt(args, "system_message")
                         [] k = "temperature" -> Get(args, "temperature", DefaultTemperature)
                         [] k = "max_tokens" -> Get(args, "max_tokens", DefaultMaxTokens)
                         [] k = "safe_prompt" -> Get(args, "safe_prompt", FALSE)
                         [] k = "random_seed" -> GetOpt(args, "random_seed")]
        defaults == [k \in {"stop_sequences"} |-> None]
        named == DictMerge(defaults, DictMerge(explicit, [k \in (DOMAIN kwargs) \cap {"stop_sequences"} |-> Some(kwargs[k])]))
    IN  MistralNormalize(named, DictWithout(kwargs, MistralPrepareParams))

(* ------------------------------ vendor stub --------------------------- *)

Calls == 1..NumCalls

Chars == {" ", "a"}

Texts(n) == UNION {[1..k -> Chars] : k \in 0..n}

\* A raw chunk carries a text, possibly empty, or null.
Chunks == {None} \cup {Some(t) : t \in Texts(MaxChunkLen)}

\* The raw vendor responses: the chunks in the order the vendor emits them.
RawResponses == UNION {[1..k -> Chunks] : k \in 0..MaxChunks}

RECURSIVE Completion(_)
\* The completion a non-streaming vendor call returns for the same chunks.
Completion(r) == IF r = <<>> THEN <<>> ELSE (IF Head(r) = None THEN <<>> ELSE Head(r)[1]) \o Completion(Tail(r))

\* response.usage of the Mistral stub.
Usage(r) == [prompt_tokens |-> 1, completion_tokens |-> Len(Completion(r))]

(* -------------------------------- state ------------------------------- *)

VARIABLES
    provider,      \* which Provider class the instance is
    model,         \* self.model
    latency,       \* self.latency, None until a tracker scope has exited
    clock,         \* wall clock
    vendorCalls,   \* what the vendor client has recorded: each call with its arguments, in order
    pc,            \* where each call is
    mode,          \* which public method each call runs
    args,          \* the caller's keyword arguments
    model_inputs,  \* local model_inputs of each call
    start,         \* start instant of each call's latency tracker (0 outside its scope)
    response,      \* local response of each call
    result,        \* what each call returned
    error,         \* what each call raised
    gen,           \* the generator the stream adapter returned: phase and rest of the response
    out            \* the fragments delivered to the consumer of the stream so far

vars == <<provider, model, latency, clock, vendorCalls, pc, mode, args, model_inputs, start, response, result, error, gen, out>>

instance == <<provider, model>>

NoGen == [phase |-> "none", response |-> <<>>]

\* The state after construction; self.latency is unset until a tracker scope
\* has exited.
Init ==
    /\ provider \in {"anthropic", "mistral"}
    /\ model \in (IF provider = "anthropic" THEN AnthropicModels ELSE MistralModels)
    /\ latency = None
    /\ clock = 0
    /\ vendorCalls = <<>>
    /\ pc = [c \in Calls |-> "idle"]
    /\ mode = [c \in Calls |-> "none"]
    /\ args = [c \in Calls |-> EmptyDict]
    /\ model_inputs = [c \in Calls |-> EmptyDict]
    /\ start = [c \in Calls |-> 0]
    /\ response = [c \in Calls |-> <<>>]
    /\ result = [c \in Calls |-> None]
    /\ error = [c \in Calls |-> ""]
    /\ gen = [c \in Calls |-> NoGen]
    /\ out = [c \in Calls |-> <<>>]

(* ---------------------------- latency tracker ------------------------- *)

\* track_latency on entry: the start instant.
TrackLatencyEnter(now) == now

\* track_latency on exit: the elapsed time, stored in self.latency.
TrackLatencyExit(started, now) == Some(now - started)

(* ------------------------------ call steps ---------------------------- *)

\* What the vendor client records of a call: model=self.model, **model_inputs.
Recorded(c, inputs) == [call |-> c, model |-> model, inputs |-> inputs]

\* StartCall with the normalizer moved inside the tracker scope: the scope
\* exits on the normalizer's exception too and stores a latency.
StartCallNormalizerInsideTracker(c, m, a, prep, tracked) ==
    /\ pc[c] = "idle"
    /\ mode' = [mode EXCEPT ![c] = m]
    /\ args' = [args EXCEPT ![c] = a]
    /\ start' = [start EXCEPT ![c] = IF tracked THEN TrackLatencyEnter(clock) ELSE @]
    /\ IF prep.ok
          THEN /\ model_inputs' = [model_inputs EXCEPT ![c] = prep.inputs]
               /\ vendorCalls' = Append(vendorCalls, Recorded(c, prep.inputs))
               /\ pc' = [pc EXCEPT ![c] = "vendor"]
               /\ UNCHANGED <<error, latency>>
          ELSE /\ error' = [error EXCEPT ![c] = prep.error]
               /\ pc' = [pc EXCEPT ![c] = "raised"]
               /\ latency' = IF tracked THEN TrackLatencyExit(TrackLatencyEnter(clock), clock) ELSE latency
               /\ UNCHANGED <<model_inputs, vendorCalls>>
    /\ UNCHANGED <<instance, clock, response, result, gen, out>>

\* A public method up to its vendor call: the normalizer runs first and its
\* exception leaves the method; otherwise the tracker scope (when the method
\* has one) is entered and the vendor client is called.
StartCall(c, m, a, prep, tracked) ==
    /\ pc[c] = "idle"
    /\ mode' = [mode EXCEPT ![c] = m]
    /\ args' = [args EXCEPT ![c] = a]
    /\ IF prep.ok
          THEN /\ model_inputs' = [model_inputs EXCEPT ![c] = prep.inputs]
               /\ start' = [start EXCEPT ![c] = IF tracked THEN TrackLatencyEnter(clock) ELSE @]
               /\ vendorCalls' = Append(vendorCalls, Recorded(c, prep.inputs))
               /\ pc' = [pc EXCEPT ![c] = "vendor"]
               /\ UNCHANGED error
          ELSE /\ error' = [error EXCEPT ![c] = prep.error]
               /\ pc' = [pc EXCEPT ![c] = "raised"]
               /\ UNCHANGED <<model_inputs, start, vendorCalls>>
    /\ UNCHANGED <<instance, latency, clock, response, result, gen, out>>

\* The blocking vendor call returns and the tracker scope exits.
ExitTracker(c, m, r) ==
    /\ pc[c] = "vendor"
    /\ mode[c] = m
    /\ response' = [response EXCEPT ![c] = r]
    /\ latency' = TrackLatencyExit(start[c], clock)
    /\ start' = [start EXCEPT ![c] = 0]
    /\ pc' = [pc EXCEPT ![c] = "exited"]
    /\ UNCHANGED <<instance, clock, vendorCalls, mode, args, model_inputs, result, error, gen, out>>

Result(text, inputs, meta) == [text |-> text, model_inputs |-> inputs, meta |-> meta]

StreamResult(inputs) == [stream |-> "generator", model_inputs |-> inputs]

\* ReturnResult with the payload kept on the instance instead of in a local:
\* the Result holds the payload of the call that normalized last.
ReturnResultSharedInputs(c, m, text, meta) ==
    /\ pc[c] = "exited"
    /\ mode[c] = m
    /\ result' = [result EXCEPT ![c] = Some(Result(text, vendorCalls[Len(vendorCalls)].inputs, meta))]
    /\ pc' = [pc EXCEPT ![c] = "returned"]
    /\ UNCHANGED <<instance, latency, clock, vendorCalls, mode, args, model_inputs, start, response, error, gen, out>>

\* The rest of a blocking single-shot method: the text is extracted and the
\* Result is built, reading self.latency.
ReturnResult(c, m, text, meta) ==
    /\ pc[c] = "exited"
    /\ mode[c] = m
    /\ result' = [result EXCEPT ![c] = Some(Result(text, model_inputs[c], meta))]
    /\ pc' = [pc EXCEPT ![c] = "returned"]
    /\ UNCHANGED <<instance, latency, clock, vendorCalls, mode, args, model_inputs, start, response, error, gen, out>>

\* An awaited single-shot vendor call resumes: the tracker scope exits, the
\* text is extracted and the Result is built, with no suspension point between.
ResumeResult(c, m, r, text, meta) ==
    /\ pc[c] = "vendor"
    /\ mode[c] = m
    /\ response' = [response EXCEPT ![c] = r]
    /\ latency' = TrackLatencyExit(start[c], clock)
    /\ start' = [start EXCEPT ![c] = 0]
    /\ result' = [result EXCEPT ![c] = Some(Result(text, model_inputs[c], meta))]
    /\ pc' = [pc EXCEPT ![c] = "returned"]
    /\ UNCHANGED <<instance, clock, vendorCalls, mode, args, model_inputs, error, gen, out>>

\* A streaming vendor call returns its raw response; the adapter's generator
\* is created over it (nothing of it runs yet) and the StreamResult returned.
ReturnStream(c, m, r) ==
    /\ pc[c] = "vendor"
    /\ mode[c] = m
    /\ response' = [response EXCEPT ![c] = r]
    /\ gen' = [gen EXCEPT ![c] = [phase |-> "first", response |-> r]]
    /\ result' = [result EXCEPT ![c] = Some(StreamResult(model_inputs[c]))]
    /\ pc' = [pc EXCEPT ![c] = "returned"]
    /\ UNCHANGED <<instance, latency, clock, vendorCalls, mode, args, model_inputs, start, error, out>>

\* The consumer asks the stream for its next fragment: the generator runs to
\* its next yield, to its end, or to an exception.  (The awaits of the async
\* adapters on the vendor's iterator touch nothing but the generator's own
\* state, so one step covers them.)
NextFragment(c, m, step) ==
    /\ pc[c] = "returned"
    /\ mode[c] = m
    /\ gen[c].phase \in {"first", "rest"}
    /\ gen' = [gen EXCEPT ![c] = step.gen]
    /\ out' = [out EXCEPT ![c] = @ \o step.yielded]
    /\ UNCHANGED <<instance, latency, clock, vendorCalls, pc, mode, args, model_inputs, start, response, result, error>>

\* A streaming method whose vendor call returns a lazy response at once: the
\* whole method is one step, with the tracker scope (when the method has one)
\* entered and exited around the vendor call.
CallStream(c, m, a, prep, tracked, r) ==
    /\ pc[c] = "idle"
    /\ mode' = [mode EXCEPT ![c] = m]
    /\ args' = [args EXCEPT ![c] = a]
    /\ IF prep.ok
          THEN /\ model_inputs' = [model_inputs EXCEPT ![c] = prep.inputs]
               /\ start' = [start EXCEPT ![c] = IF tracked THEN TrackLatencyEnter(clock) ELSE @]
               /\ vendorCalls' = Append(vendorCalls, Recorded(c, prep.inputs))
               /\ response' = [response EXCEPT ![c] = r]
               /\ latency' = IF tracked THEN TrackLatencyExit(TrackLatencyEnter(clock), clock) ELSE latency
               /\ gen' = [gen EXCEPT ![c] = [phase |-> "first", response |-> r]]
               /\ result' = [result EXCEPT ![c] = Some(StreamResult(prep.inputs))]
               /\ pc' = [pc EXCEPT ![c] = "returned"]
               /\ UNCHANGED error
          ELSE /\ error' = [error EXCEPT ![c] = prep.error]
               /\ pc' = [pc EXCEPT ![c] = "raised"]
               /\ UNCHANGED <<model_inputs, start, vendorCalls, response, latency, gen, result>>
    /\ UNCHANGED <<instance, clock, out>>

(* ----------------------------- stream adapters ------------------------ *)

Yield(phase, rest, fragment) == [gen |-> [phase |-> phase, response |-> rest], yielded |-> <<fragment>>]

\* The generator ends: StopIteration for the consumer.
Stop(rest) == [gen |-> [phase |-> "done", response |-> rest], yielded |-> <<>>]

\* An exception leaves the generator.  next() on an exhausted iterator raises
\* StopIteration (StopAsyncIteration), which inside a generator body becomes
\* RuntimeError; a method call on None raises AttributeError.
Throw(rest) == [gen |-> [phase |-> "raised", response |-> rest], yielded |-> <<>>]

\* AnthropicProvider._process_stream up to its next yield.
AnthropicProcessStream(g) ==
    IF g.phase = "first"
        THEN IF g.response = <<>> THEN Throw(<<>>)
             ELSE IF Head(g.response) = None THEN Throw(Tail(g.response))
             ELSE Yield("rest", Tail(g.response), Some(lstrip(Head(g.response)[1])))
    ELSE IF g.response = <<>> THEN Stop(<<>>)
         ELSE Yield("rest", Tail(g.response), Head(g.response))

\* AnthropicProvider._aprocess_stream up to its next yield.
AnthropicAprocessStream(g) ==
    IF g.phase = "first"
        THEN IF g.response = <<>> THEN Throw(<<>>)
             ELSE IF Head(g.response) = None THEN Throw(Tail(g.response))
             ELSE Yield("rest", Tail(g.response), Some(lstrip(Head(g.response)[1])))
    ELSE IF g.response = <<>> THEN Stop(<<>>)
         ELSE Yield("rest", Tail(g.response), Head(g.response))

\* `not chunk`: None and the empty text are falsy.
Falsy(chunk) == chunk = None \/ chunk[1] = <<>>

RECURSIVE SkipFalsy(_)
SkipFalsy(r) == IF r = <<>> THEN <<>> ELSE IF Falsy(Head(r)) THEN SkipFalsy(Tail(r)) ELSE r

RECURSIVE SkipNone(_)
SkipNone(r) == IF r = <<>> THEN <<>> ELSE IF Head(r) = None THEN SkipNone(Tail(r)) ELSE r

\* MistralProvider._process_stream up to its next yield.
MistralProcessStream(g) ==
    IF g.phase = "first"
        THEN LET r == SkipFalsy(g.response)
             IN  IF r = <<>> THEN Throw(<<>>)
                 ELSE Yield("rest", Tail(r), Some(lstrip(Head(r)[1])))
    ELSE LET r == SkipNone(g.response)
         IN  IF r = <<>> THEN Stop(<<>>) ELSE Yield("rest", Tail(r), Head(r))

\* MistralProvider._aprocess_stream up to its next yield.
MistralAprocessStream(g) ==
    IF g.phase = "first"
        THEN LET r == SkipFalsy(g.response)
             IN  IF r = <<>> THEN Throw(<<>>)
                 ELSE Yield("rest", Tail(r), Some(lstrip(Head(r)[1])))
    ELSE LET r == SkipNone(g.response)
         IN  IF r = <<>> THEN Stop(<<>>) ELSE Yield("rest", Tail(r), Head(r))

(* --------------------------- AnthropicProvider ------------------------ *)

AnthropicText(r) == strip(Completion(r))

AnthropicComplete(c, a) ==
    provider = "anthropic" /\ StartCall(c, "complete", a, AnthropicPrepare(model, "complete", a), TRUE)

AnthropicCompleteExit(c, r) ==
    provider = "anthropic" /\ ExitTracker(c, "complete", r)

AnthropicCompleteReturn(c) ==
    provider = "anthropic" /\ ReturnResult(c, "complete", AnthropicText(response[c]), [latency |-> latency])

AnthropicAcomplete(c, a) ==
    provider = "anthropic" /\ StartCall(c, "acomplete", a, AnthropicPrepare(model, "acomplete", a), TRUE)

\* AnthropicAcompleteResume with the meta built before the tracker scope exits:
\* it reads the latency another call stored.
AnthropicAcompleteResumeStaleLatency(c, r) ==
    provider = "anthropic" /\ ResumeResult(c, "acomplete", r, AnthropicText(r), [latency |-> latency])

AnthropicAcompleteResume(c, r) ==
    provider = "anthropic" /\ ResumeResult(c, "acomplete", r, AnthropicText(r), [latency |-> latency'])

AnthropicCompleteStream(c, a) ==
    provider = "anthropic" /\ StartCall(c, "complete_stream", a, AnthropicPrepare(model, "complete_stream", a), FALSE)

AnthropicCompleteStreamReturn(c, r) ==
    provider = "anthropic" /\ ReturnStream(c, "complete_stream", r)

AnthropicAcompleteStream(c, a) ==
    provider = "anthropic" /\ StartCall(c, "acomplete_stream", a, AnthropicPrepare(model, "acomplete_stream", a), FALSE)

AnthropicAcompleteStreamResume(c, r) ==
    provider = "anthropic" /\ ReturnStream(c, "acomplete_stream", r)

AnthropicStreamNext(c) ==
    provider = "anthropic" /\ NextFragment(c, "complete_stream", AnthropicProcessStream(gen[c]))

AnthropicAstreamNext(c) ==
    provider = "anthropic" /\ NextFragment(c, "acomplete_stream", AnthropicAprocessStream(gen[c]))

(* ---------------------------- MistralProvider ------------------------- *)

MistralText(r) == Completion(r)

MistralMeta(r, lat) == [tokens_prompt |-> Usage(r).prompt_tokens, tokens_completion |-> Usage(r).completion_tokens, latency |-> lat]

MistralComplete(c, a) ==
    provider = "mistral" /\ StartCall(c, "complete", a, MistralPrepare(a), TRUE)

MistralCompleteExit(c, r) ==
    provider = "mistral" /\ ExitTracker(c, "complete", r)

MistralCompleteReturn(c) ==
    provider = "mistral" /\ ReturnResult(c, "complete", MistralText(response[c]), MistralMeta(response[c], latency))

MistralAcomplete(c, a) ==
    provider = "mistral" /\ StartCall(c, "acomplete", a, MistralPrepare(a), TRUE)

MistralAcompleteResume(c, r) ==
    provider = "mistral" /\ ResumeResult(c, "acomplete", r, MistralText(r), MistralMeta(r, latency'))

MistralCompleteStream(c, a, r) ==
    provider = "mistral" /\ CallStream(c, "complete_stream", a, MistralPrepare(a), FALSE, r)

MistralAcompleteStream(c, a, r) ==
    provider = "mistral" /\ CallStream(c, "acomplete_stream", a, MistralPrepare(a), TRUE, r)

MistralStreamNext(c) ==
    provider = "mistral" /\ NextFragment(c, "complete_stream", MistralProcessStream(gen[c]))

MistralAstreamNext(c) ==
    provider = "mistral" /\ NextFragment(c, "acomplete_stream", MistralAprocessStream(gen[c]))

(* ------------------------------ environment --------------------------- *)

\* Time passes.
Tick ==
    /\ clock < MaxClock
    /\ clock' = clock + 1
    /\ UNCHANGED <<instance, latency, vendorCalls, pc, mode, args, model_inputs, start, response, result, error, gen, out>>

(* ------------------------------- requests ----------------------------- *)

\* The keyword arguments a caller passes: `prompt`, and any of the others.
Option(k, values) == {EmptyDict} \cup {[x \in {k} |-> v] : v \in values}

Histories == {
    <<[role |-> "user", content |-> <<"h">>], [role |-> "assistant", content |-> <<"i">>]>>,
    <<[role |-> "tool", content |-> <<"h">>]>>,
    <<[role |-> "system", content |-> <<"h">>]>> }

\* Keywords that are no named parameter of the public methods.
Extras == {
    EmptyDict,
    [x \in {"top_k"} |-> 5],
    [x \in {"max_tokens_to_sample"} |-> 7],
    [x \in {"stream"} |-> TRUE],
    [x \in {"stream"} |-> FALSE],
    [x \in {"messages"} |-> <<ChatMessage("user", <<"z">>)>>] }

Prompt(t) == [x \in {"prompt"} |-> t]

AllArgs ==
    { DictMerge(Prompt(<<"p">>), DictMerge(h, DictMerge(s, DictMerge(st, DictMerge(mt, e))))) :
        h \in Option("history", Histories),
        s \in Option("system_message", {<<"s", " ">>}),
        st \in Option("stop_sequences", {<<>>, <<<<"x">>>>}),
        mt \in Option("max_tokens", {50}),
        e \in Extras }

StreamArgs == {Prompt(<<"p">>)}

\* Concurrent callers pass different requests: call c prompts with c characters.
ConcArgs(c) == {Prompt([i \in 1..c |-> "p"])}

NormResponses == {<<Some(<<" ", "a">>)>>}

\* The deterministic vendor stub of the concurrent calls answers a request
\* with its own prompt.
Echo(inputs) ==
    LET asked == IF "prompt" \in DOMAIN inputs THEN inputs["prompt"]
                 ELSE inputs["messages"][Len(inputs["messages"])].content
    IN  <<Some(<<"a", " ">> \o asked \o <<" ">>)>>

(* ---------------------------- specifications -------------------------- *)

Idle(c) == pc[c] = "idle"

InVendor(c, m) == pc[c] = "vendor" /\ mode[c] = m

SingleShotSteps(c, A, R) ==
    \/ Idle(c) /\ \E a \in A : AnthropicComplete(c, a)
    \/ InVendor(c, "complete") /\ \E r \in R : AnthropicCompleteExit(c, r)
    \/ AnthropicCompleteReturn(c)
    \/ Idle(c) /\ \E a \in A : AnthropicAcomplete(c, a)
    \/ InVendor(c, "acomplete") /\ \E r \in R : AnthropicAcompleteResume(c, r)
    \/ Idle(c) /\ \E a \in A : MistralComplete(c, a)
    \/ InVendor(c, "complete") /\ \E r \in R : MistralCompleteExit(c, r)
    \/ MistralCompleteReturn(c)
    \/ Idle(c) /\ \E a \in A : MistralAcomplete(c, a)
    \/ InVendor(c, "acomplete") /\ \E r \in R : MistralAcompleteResume(c, r)

StreamSteps(c, A, R) ==
    \/ Idle(c) /\ \E a \in A : AnthropicCompleteStream(c, a)
    \/ InVendor(c, "complete_stream") /\ \E r \in R : AnthropicCompleteStreamReturn(c, r)
    \/ Idle(c) /\ \E a \in A : AnthropicAcompleteStream(c, a)
    \/ InVendor(c, "acomplete_stream") /\ \E r \in R : AnthropicAcompleteStreamResume(c, r)
    \/ AnthropicStreamNext(c)
    \/ AnthropicAstreamNext(c)
    \/ Idle(c) /\ \E a \in A, r \in R : MistralCompleteStream(c, a, r)
    \/ Idle(c) /\ \E a \in A, r \in R : MistralAcompleteStream(c, a, r)
    \/ MistralStreamNext(c)
    \/ MistralAstreamNext(c)

\* Every request shape in every mode (call 1), beside a plain single-shot
\* call on the same instance (call 2).
NextNorm ==
    \/ SingleShotSteps(1, AllArgs, NormResponses)
    \/ StreamSteps(1, AllArgs, NormResponses)
    \/ SingleShotSteps(2, StreamArgs, NormResponses)

SpecNorm == Init /\ [][NextNorm]_vars

\* One call, every raw vendor response.
NextStream == SingleShotSteps(1, StreamArgs, RawResponses) \/ StreamSteps(1, StreamArgs, RawResponses)

SpecStream == Init /\ [][NextStream]_vars

\* Concurrent single-shot calls on one instance while time passes.
NextConc ==
    \/ \E c \in Calls : Idle(c) /\ \E a \in ConcArgs(c) : AnthropicComplete(c, a)
    \/ \E c \in Calls : AnthropicCompleteExit(c, Echo(model_inputs[c]))
    \/ \E c \in Calls : AnthropicCompleteReturn(c)
    \/ \E c \in Calls : Idle(c) /\ \E a \in ConcArgs(c) : AnthropicAcomplete(c, a)
    \/ \E c \in Calls : AnthropicAcompleteResume(c, Echo(model_inputs[c]))
    \/ \E c \in Calls : Idle(c) /\ \E a \in ConcArgs(c) : MistralComplete(c, a)
    \/ \E c \in Calls : MistralCompleteExit(c, Echo(model_inputs[c]))
    \/ \E c \in Calls : MistralCompleteReturn(c)
    \/ \E c \in Calls : Idle(c) /\ \E a \in ConcArgs(c) : MistralAcomplete(c, a)
    \/ \E c \in Calls : MistralAcompleteResume(c, Echo(model_inputs[c]))
    \/ Tick

SpecConc == Init /\ [][NextConc]_vars

(* -------------------------------- claims ------------------------------ *)

Streaming(c) == mode[c] \in StreamModes

SingleShot(c) == mode[c] \in {"complete", "acomplete"}

\* The text a fragment carries (a null fragment carries none).
FragmentText(f) == IF f = None THEN <<>> ELSE f[1]

Concatenated(fragments) == join([i \in 1..Len(fragments) |-> FragmentText(fragments[i])])

\* The stream of call c has been iterated at least once.
Iterated(c) == Streaming(c) /\ gen[c].phase \in {"rest", "done", "raised"}

NonEmpty(chunk) == ~Falsy(chunk)

\* The text complete returns for a vendor completion made of the chunks r.
CompleteText(r) == IF provider = "anthropic" THEN AnthropicText(r) ELSE MistralText(r)

\* The normalizer's outcome for the request of call c in mode m.
Prepared(m, a) == IF provider = "anthropic" THEN AnthropicPrepare(model, m, a) ELSE MistralPrepare(a)

PublicParams == IF provider = "anthropic" THEN AnthropicPublicParams ELSE MistralPublicParams

OwnedKeys ==
    IF provider = "anthropic" THEN {"prompt", "temperature", "max_tokens_to_sample", "stop_sequences", "stream"}
    ELSE {"messages", "temperature", "max_tokens", "safe_prompt", "random_seed"}

\* The vendor client has recorded a call of call c.
RecordedFor(c) == {i \in DOMAIN vendorCalls : vendorCalls[i].call = c}

PastNormalizer(c) == pc[c] \in {"vendor", "exited", "returned"}

\* C1: once a stream has been consumed to its end, the concatenation of the
\* fragments it delivered, in order, equals the text complete returns for the
\* completion made of the same raw chunks.
C1_StreamConcatEqualsCompleteText ==
    \A c \in Calls : (Streaming(c) /\ gen[c].phase = "done") => Concatenated(out[c]) = CompleteText(response[c])

\* C2: when the raw response holds no non-empty chunk (no chunk at all, or only
\* empty and null ones), iterating the stream ends cleanly: the generator is
\* done, has delivered nothing and has raised nothing.
C2_EmptyStreamEndsCleanly ==
    \A c \in Calls : (Iterated(c) /\ SkipFalsy(response[c]) = <<>>) => (gen[c].phase = "done" /\ out[c] = <<>>)

\* C3: when the raw response is k >= 0 empty chunks followed by a non-empty
\* chunk, the first fragment delivered is that chunk with its leading
\* whitespace stripped.
C3_FirstFragmentIsFirstNonEmptyChunk ==
    \A c \in Calls : (Iterated(c) /\ SkipFalsy(response[c]) # <<>>) =>
        /\ Len(out[c]) >= 1
        /\ out[c][1] = Some(lstrip(Head(SkipFalsy(response[c]))[1]))

\* C4: after the first delivered fragment no empty or null fragment is ever
\* delivered, and at the end of the stream the later fragments are exactly the
\* non-empty raw chunks that follow the first non-empty one, in vendor order.
C4_LaterFragmentsVerbatimNoEmpty ==
    \A c \in Calls : (Streaming(c) /\ Len(out[c]) >= 1) =>
        /\ \A i \in 2..Len(out[c]) : NonEmpty(out[c][i])
        /\ gen[c].phase = "done" => Tail(out[c]) = SelectSeq(Tail(SkipFalsy(response[c])), NonEmpty)

UnrecognizedRole(a) ==
    "history" \in DOMAIN a /\ \E i \in 1..Len(a["history"]) : a["history"][i].role \notin {"user", "assistant", "system"}

\* C5: a call whose history holds an unrecognized role raises, in every mode
\* of every provider, and the vendor client has recorded no call for it.
C5_UnrecognizedRoleRaisesBeforeVendor ==
    \A c \in Calls : (pc[c] # "idle" /\ UnrecognizedRole(args[c])) => (pc[c] = "raised" /\ RecordedFor(c) = {})

\* C6: a step in which call c starts with a request its normalizer rejects
\* ends the call with the exception, and nothing else happens: the vendor
\* client records nothing, self.latency keeps its value, no tracker is
\* entered and nothing is returned.
C6_RejectedCallReachesNoVendorNoLatency ==
    [][\A c \in Calls : (pc[c] = "idle" /\ pc'[c] # "idle" /\ ~Prepared(mode'[c], args'[c]).ok) =>
          /\ pc'[c] = "raised"
          /\ error'[c] = Prepared(mode'[c], args'[c]).error
          /\ vendorCalls' = vendorCalls
          /\ latency' = latency
          /\ start' = start
          /\ result'[c] = None
          /\ gen'[c] = NoGen]_vars

\* A rejected call (a system message on a model other than claude-2) next to
\* a call that reached the vendor and measured its latency.
C6_Witness ==
    /\ pc[1] = "raised"
    /\ ~Prepared(mode[1], args[1]).ok
    /\ error[1] = "ValueError: System message only available for Claude-2 model"
    /\ RecordedFor(1) = {}
    /\ pc[2] = "returned"
    /\ latency # None
    /\ Len(vendorCalls) = 1

\* C7: the text of the Result complete and acomplete return is the vendor's
\* completion with leading and trailing whitespace stripped.
C7_ResultTextStripped ==
    \A c \in Calls : (SingleShot(c) /\ pc[c] = "returned") => result[c][1].text = strip(Completion(response[c]))

\* C8: whatever extra keywords the caller passes, each normalizer-owned key of
\* the payload holds the value the normalizer derives from the named request
\* fields alone.
C8_PassthroughNeverShadowsOwnedKeys ==
    \A c \in Calls : PastNormalizer(c) =>
        DictOnly(model_inputs[c], OwnedKeys) = DictOnly(Prepared(mode[c], DictOnly(args[c], PublicParams)).inputs, OwnedKeys)

\* What call c is owed: the payload of its own request and the text of the
\* response the vendor gave to that payload.
OwnInputs(c) == Prepared(mode[c], args[c]).inputs

OwnText(c) == CompleteText(Echo(OwnInputs(c)))

\* C9: under every interleaving of concurrent calls with different requests,
\* the Result of each call holds the payload built from its own request and
\* the text of its own vendor response, and neither is another call's.
C9_NoCrossContamination ==
    \A c \in Calls : pc[c] = "returned" =>
        /\ result[c][1].model_inputs = OwnInputs(c)
        /\ result[c][1].text = OwnText(c)
        /\ \A d \in Calls \ {c} : pc[d] # "idle" =>
              /\ result[c][1].model_inputs # OwnInputs(d)
              /\ result[c][1].text # OwnText(d)

\* Call 1 started after call 2, returned while call 2 is still inside its
\* vendor call.
C9_Witness ==
    /\ Len(vendorCalls) = 2
    /\ vendorCalls[1].call = 2
    /\ vendorCalls[2].call = 1
    /\ pc[1] = "returned"
    /\ pc[2] = "vendor"

\* C10: when an acomplete call resumes from its vendor await, the latency in
\* the meta of the Result it returns is the time elapsed since that call
\* entered its own tracker scope, whatever other calls did in between.
C10_AcompleteLatencyIsOwn ==
    [][\A c \in Calls : (pc[c] = "vendor" /\ mode[c] = "acomplete" /\ pc'[c] = "returned") =>
          result'[c][1].meta.latency = Some(clock - start[c])]_vars

\* Two acomplete calls have returned with different latencies: the first
\* one's Result keeps its own although self.latency holds the other's.
C10_Witness ==
    /\ pc[1] = "returned" /\ mode[1] = "acomplete"
    /\ pc[2] = "returned" /\ mode[2] = "acomplete"
    /\ vendorCalls[1].call = 2
    /\ result[1][1].meta.latency # latency
    /\ result[2][1].meta.latency = latency
    /\ result[1][1].meta.latency = Some(1)

====
